---- MODULE Spec2Model ----
(***************************************************************************)
(* Model of lib/connection/requester.py (class Requester).                 *)
(*                                                                         *)
(* Python strings are sequences of one-character strings, so that the      *)
(* string operations of the code (endswith, startswith, split, strip,      *)
(* urlparse, quote, int, format) are computed on the characters.           *)
(* The Python value None of a string-valued name is NoneVal; an attribute  *)
(* that was never assigned is Unset.  For the lists proxylist and          *)
(* randomAgents the code only tests truthiness, so None and the empty      *)
(* list are both the empty sequence.                                       *)
(***************************************************************************)
EXTENDS Integers, Sequences, FiniteSets, TLC

\* ------------------------------------------------------------------------
\* Bounds of the model
\* ------------------------------------------------------------------------

\* largest value of the constructor argument maxRetries that is explored
MaxRetriesBound == 2

\* ------------------------------------------------------------------------
\* Python values
\* ------------------------------------------------------------------------

NoneVal == << "<None>" >>

Unset == << "<unset>" >>

Truthy(x) == x # NoneVal /\ x # << >>

\* str.format("{0}", x) of a string or of None
Format(x) == IF x = NoneVal THEN << "N", "o", "n", "e" >> ELSE x

\* ------------------------------------------------------------------------
\* String operations
\* ------------------------------------------------------------------------

startswith(s, p) == Len(s) >= Len(p) /\ SubSeq(s, 1, Len(p)) = p

endswith(s, p) == Len(s) >= Len(p) /\ SubSeq(s, Len(s) - Len(p) + 1, Len(s)) = p

\* s[n:] for n >= 0
From(s, n) == SubSeq(s, n + 1, Len(s))

\* str.find as a 1-based index, 0 when sub does not occur
Find(s, sub) ==
    LET hits == { i \in 1..(Len(s) - Len(sub) + 1) : SubSeq(s, i, i + Len(sub) - 1) = sub }
    IN  IF hits = {} THEN 0 ELSE CHOOSE i \in hits : \A j \in hits : i <= j

Contains(s, sub) == Find(s, sub) # 0

RECURSIVE split(_, _)
\* str.split(sep) for a one-character separator
split(s, sep) ==
    LET i == Find(s, << sep >>)
    IN  IF i = 0 THEN << s >>
        ELSE << SubSeq(s, 1, i - 1) >> \o split(From(s, i), sep)

RECURSIVE lstrip(_)
lstrip(s) == IF s # << >> /\ Head(s) = " " THEN lstrip(Tail(s)) ELSE s

RECURSIVE rstrip(_)
rstrip(s) == IF s # << >> /\ s[Len(s)] = " " THEN rstrip(SubSeq(s, 1, Len(s) - 1)) ELSE s

strip(s) == rstrip(lstrip(s))

Digits == { "0", "1", "2", "3", "4", "5", "6", "7", "8", "9" }

Lower == << "a", "b", "c", "d", "e", "f", "g", "h", "i", "j", "k", "l", "m", "n", "o", "p", "q", "r", "s", "t", "u", "v", "w", "x", "y", "z" >>

Upper == << "A", "B", "C", "D", "E", "F", "G", "H", "I", "J", "K", "L", "M", "N", "O", "P", "Q", "R", "S", "T", "U", "V", "W", "X", "Y", "Z" >>

LowerLetters == { Lower[i] : i \in 1..26 }

UpperLetters == { Upper[i] : i \in 1..26 }

lowerChar(c) == IF c \in UpperLetters THEN Lower[CHOOSE i \in 1..26 : Upper[i] = c] ELSE c

lower(s) == [ i \in 1..Len(s) |-> lowerChar(s[i]) ]

DigitValue(c) ==
    CASE c = "0" -> 0 [] c = "1" -> 1 [] c = "2" -> 2 [] c = "3" -> 3 [] c = "4" -> 4
      [] c = "5" -> 5 [] c = "6" -> 6 [] c = "7" -> 7 [] c = "8" -> 8 [] c = "9" -> 9

DigitChar(d) ==
    CASE d = 0 -> "0" [] d = 1 -> "1" [] d = 2 -> "2" [] d = 3 -> "3" [] d = 4 -> "4"
      [] d = 5 -> "5" [] d = 6 -> "6" [] d = 7 -> "7" [] d = 8 -> "8" [] d = 9 -> "9"

\* int(s) raises ValueError unless s is a non-empty string of digits
IsInt(s) == s # << >> /\ \A i \in 1..Len(s) : s[i] \in Digits

RECURSIVE int(_)
int(s) == IF s = << >> THEN 0 ELSE 10 * int(SubSeq(s, 1, Len(s) - 1)) + DigitValue(s[Len(s)])

RECURSIVE str(_)
\* "{0}".format(n) of a non-negative integer
str(n) == IF n < 10 THEN << DigitChar(n) >> ELSE str(n \div 10) \o << DigitChar(n % 10) >>

\* ------------------------------------------------------------------------
\* urllib.parse
\* ------------------------------------------------------------------------

SchemeChars == LowerLetters \cup UpperLetters \cup Digits \cup { "+", "-", "." }

\* urllib.parse.urlparse on a URL without query, fragment or parameters:
\* the text before the first ':' is the scheme when it consists of scheme
\* characters and starts with a letter; a following '//' opens the netloc,
\* which ends before the next '/'; the rest is the path.
urlparse(u) ==
    LET i == Find(u, << ":" >>)
        hasScheme == /\ i > 1
                     /\ u[1] \in LowerLetters \cup UpperLetters
                     /\ \A j \in 1..(i - 1) : u[j] \in SchemeChars
        scheme == IF hasScheme THEN lower(SubSeq(u, 1, i - 1)) ELSE << >>
        rest == IF hasScheme THEN From(u, i) ELSE u
        hasNetloc == startswith(rest, << "/", "/" >>)
        after == From(rest, 2)
        k == Find(after, << "/" >>)
        netloc == IF ~hasNetloc THEN << >>
                  ELSE IF k = 0 THEN after ELSE SubSeq(after, 1, k - 1)
        path == IF ~hasNetloc THEN rest
                ELSE IF k = 0 THEN << >> ELSE From(after, k - 1)
    IN  [ scheme |-> scheme, netloc |-> netloc, path |-> path ]

\* characters urllib.parse.quote never encodes, and the safe argument of line 69
\* (without its backquote, which no input contains)
AlwaysSafe == LowerLetters \cup UpperLetters \cup Digits \cup { "_", ".", "-", "~" }

SafeChars == { "!", "\"", "#", "$", "%", "&", "'", "(", ")", "*", "+", ",", "-", ".", "/",
               ":", ";", "<", "=", ">", "?", "@", "[", "\\", "]", "^", "_", "{", "|",
               "}", "~" }

\* percent-encoding of the one character of the inputs outside both sets
quoteChar(c) ==
    IF c \in AlwaysSafe \cup SafeChars THEN << c >>
    ELSE IF c = " " THEN << "%", "2", "0" >>
    ELSE << "%", "?", "?" >>

RECURSIVE quote(_)
quote(s) == IF s = << >> THEN << >> ELSE quoteChar(Head(s)) \o quote(Tail(s))

\* ------------------------------------------------------------------------
\* Inputs
\* ------------------------------------------------------------------------

http == << "h", "t", "t", "p" >>

https == << "h", "t", "t", "p", "s" >>

ftp == << "f", "t", "p" >>

Delim == << ":", "/", "/" >>

Host == << "H", "o", "s", "t" >>

UserAgent == << "U", "s", "e", "r", "-", "A", "g", "e", "n", "t" >>

\* target URLs: [scheme://] host [:port] [path]
UrlSchemes == { << >>, http \o Delim, https \o Delim, ftp \o Delim, << "H", "T", "T", "P" >> \o Delim }

UrlPorts == { << >>, << ":", "8", "0" >>, << ":", "4", "4", "3" >>, << ":", "0", "8", "1" >>,
              << ":", "x" >>, << ":" >> }

UrlPaths == { << >>, << "/" >>, << "/", "a" >>, << "/", "/", "a" >>, << "/", "a", " ", "b", "/" >> }

Urls == { s \o << "h" >> \o p \o q : s \in UrlSchemes, p \in UrlPorts, q \in UrlPaths }

ProxyA == http \o Delim \o << "p" >>

ProxyB == << "q" >>

ProxyC == https \o Delim \o << "r" >>

ProxyD == << "s", "o", "c", "k", "s", "5" >> \o Delim \o << "s" >>

IpA == << "9" >>

\* every combination of constructor arguments that is explored
AllArgs ==
    [ url : Urls,
      scheme : { NoneVal, http, https, ftp },
      ip : { NoneVal, IpA },
      proxy : { NoneVal, ProxyA },
      proxylist : { << >>, << ProxyB, ProxyC >> },
      requestByHostname : BOOLEAN,
      maxRetries : 0..MaxRetriesBound ]

\* the constructor arguments under which request() is explored
CallArgs ==
    [ url : { << "h", ":", "8", "1", "/", "a" >> },
      scheme : { http },
      ip : { NoneVal },
      proxy : { NoneVal, ProxyA },
      proxylist : { << >>, << ProxyB, ProxyC >> },
      requestByHostname : BOOLEAN,
      maxRetries : 0..MaxRetriesBound ]

\* socket.gethostbyname returns an address or raises socket.gaierror
gaierror == << "<gaierror>" >>

DnsOutcomes == { << "7" >>, gaierror }

\* ------------------------------------------------------------------------
\* State
\* ------------------------------------------------------------------------

VARIABLES
    args,          \* the arguments of Requester(...)
    phase,         \* "new", "ready" (constructed) or "failed" (the constructor raised)
    exc,           \* << >> or << the exception the constructor raised >>
    protocol, host, ip, port, basePath,
    url,           \* self.url
    headers,       \* self.headers
    randomAgents,  \* self.randomAgents
    call           \* the request() call of each caller

vars == << args, phase, exc, protocol, host, ip, port, basePath, url, headers, randomAgents, call >>

maxRetries == args.maxRetries

proxy == args.proxy

proxylist == args.proxylist

requestByHostname == args.requestByHostname

\* ------------------------------------------------------------------------
\* Requester.__init__
\* ------------------------------------------------------------------------

Message(text, arg) == [ text |-> text, arg |-> arg ]

RequestException(message) == [ type |-> "RequestException", message |-> message ]

AttributeError(name) == [ type |-> "AttributeError", message |-> Message("no attribute", name) ]

\* parsed.path without one leading '/'
StripLeadingSlash(path) == IF startswith(path, << "/" >>) THEN From(path, 1) ELSE path

\* self.ip after lines 74-82: Unset when the lookup is skipped, gaierror when it fails
ResolveIp(a, dns) ==
    IF Truthy(a.ip) THEN a.ip
    ELSE IF ~Truthy(a.proxy) /\ ~Truthy(a.proxylist) THEN dns
    ELSE Unset

\* the Host header of lines 95-101
HostHeader(proto, h, prt) ==
    IF (proto = https /\ prt # 443) \/ (proto = http /\ prt # 80)
    THEN h \o << ":" >> \o str(prt)
    ELSE h

\* self.url of lines 113-117 and 181
BaseUrl(proto, h, prt) == proto \o Delim \o h \o << ":" >> \o str(prt) \o << "/" >>

\* lines 50-57: the parse of the URL, and whether the URL came with a scheme
Parsed(a) ==
    LET url1 == IF ~endswith(a.url, << "/" >>) THEN a.url \o << "/" >> ELSE a.url
        noDelim == ~Contains(url1, Delim)
        parsed == IF noDelim THEN urlparse(Format(a.scheme) \o Delim \o url1) ELSE urlparse(url1)
    IN  [ explicit |-> ~noDelim, scheme |-> parsed.scheme, netloc |-> parsed.netloc,
          path |-> parsed.path ]

\* lines 84-88: the port, for the segments of netloc.split(":")
Port(proto, parts) ==
    IF Len(parts) < 2 THEN (IF proto = https THEN 443 ELSE 80) ELSE int(parts[2])

\* the exception the constructor raises (<< >> when none), in the order of the
\* raise statements: line 61, line 82, line 90, and the read of self.ip in line 115
Raises(a, parsed, parts, ipv) ==
    IF parsed.explicit /\ parsed.scheme \notin { https, http }
    THEN << RequestException(Message("Unsupported URL scheme: ", parsed.scheme)) >>
    ELSE IF ipv = gaierror
    THEN << RequestException(Message("Couldn't resolve DNS", << >>)) >>
    ELSE IF Len(parts) >= 2 /\ ~IsInt(parts[2])
    THEN << RequestException(Message("Invalid port number: ", parts[2])) >>
    ELSE IF ~a.requestByHostname /\ ipv = Unset
    THEN << AttributeError("ip") >>
    ELSE << >>

\* the attributes a constructor that raises nothing assigns
Attributes(a, parsed, parts, ipv, prt) ==
    [ exc |-> << >>,
      protocol |-> parsed.scheme,
      host |-> parts[1],
      ip |-> ipv,
      port |-> prt,
      basePath |-> quote(StripLeadingSlash(parsed.path)),
      url |-> BaseUrl(parsed.scheme, IF a.requestByHostname THEN parts[1] ELSE ipv, prt),
      headers |-> [ k \in { Host } |-> HostHeader(parsed.scheme, parts[1], prt) ] ]

\* no object when the constructor raised
NoAttributes(raised) ==
    [ exc |-> raised, protocol |-> Unset, host |-> Unset, ip |-> Unset, port |-> 0,
      basePath |-> Unset, url |-> Unset, headers |-> << >> ]

Constructed(a, parsed, parts, ipv, raised) ==
    IF raised # << >> THEN NoAttributes(raised)
    ELSE Attributes(a, parsed, parts, ipv, Port(parsed.scheme, parts))

RequesterOf(a, parsed, parts, ipv) ==
    Constructed(a, parsed, parts, ipv, Raises(a, parsed, parts, ipv))

RequesterParsed(a, parsed, dns) ==
    RequesterOf(a, parsed, split(parsed.netloc, ":"), ResolveIp(a, dns))

\* the constructor run on arguments a with DNS outcome dns: the exception it
\* raises (<< >> when none) and the attributes it assigns
Requester(a, dns) == RequesterParsed(a, Parsed(a), dns)

\* a caller that is not inside request(): the locals of request() (path, proxy,
\* i, result, error, proxies, url), the argument proxy as given (pinned), the
\* attempts made so far (log), how the last call ended (ret), and for the
\* current attempt the User-Agent it picked (picked) and the headers argument
\* of its exchange (sent)
Idle ==
    [ pc |-> "idle", path |-> << >>, pinned |-> NoneVal, proxy |-> NoneVal, i |-> 0,
      result |-> << >>, error |-> << >>, proxies |-> {}, url |-> << >>,
      log |-> << >>, ret |-> << >>, picked |-> << >>, sent |-> << >> ]

Construct ==
    /\ phase = "new"
    /\ \E dns \in DnsOutcomes :
         LET r == Requester(args, dns)
         IN  /\ phase' = IF r.exc = << >> THEN "ready" ELSE "failed"
             /\ exc' = r.exc
             /\ protocol' = r.protocol
             /\ host' = r.host
             /\ ip' = r.ip
             /\ port' = r.port
             /\ basePath' = r.basePath
             /\ url' = r.url
             /\ headers' = r.headers
    /\ UNCHANGED << args, randomAgents, call >>

InitWith(A, callers) ==
    /\ args \in A
    /\ phase = "new"
    /\ exc = << >>
    /\ protocol = Unset
    /\ host = Unset
    /\ ip = Unset
    /\ port = 0
    /\ basePath = Unset
    /\ url = Unset
    /\ headers = << >>
    /\ randomAgents = << >>
    /\ call = [ w \in callers |-> Idle ]

\* the constructor alone, on every combination of arguments
InitNew == InitWith(AllArgs, { 1 })

NextNew == Construct

SpecNew == InitNew /\ [][NextNew]_vars

\* the constructor alone, with a default scheme that is http or https
InitNewHttp == InitWith({ a \in AllArgs : a.scheme \in { http, https } }, { 1 })

SpecNewHttp == InitNewHttp /\ [][NextNew]_vars

\* ------------------------------------------------------------------------
\* setHeader, setRandomAgents, unsetRandomAgents
\* ------------------------------------------------------------------------

Put(d, k, v) == [ x \in (DOMAIN d) \cup { k } |-> IF x = k THEN v ELSE d[x] ]

HeaderKeys == { << " ", "H", "o", "s", "t" >> }

HeaderValues == { << "x", " " >> }

AgentA == << "A" >>

AgentB == << "B" >>

AgentLists == { << AgentA, AgentB >> }

setHeader(key, value) ==
    /\ phase = "ready"
    /\ headers' = Put(headers, strip(key), IF Truthy(value) THEN strip(value) ELSE value)
    /\ UNCHANGED << args, phase, exc, protocol, host, ip, port, basePath, url, randomAgents, call >>

setRandomAgents(agents) ==
    /\ phase = "ready"
    /\ randomAgents' = agents
    /\ UNCHANGED << args, phase, exc, protocol, host, ip, port, basePath, url, headers, call >>

unsetRandomAgents ==
    /\ phase = "ready"
    /\ randomAgents' = << >>
    /\ UNCHANGED << args, phase, exc, protocol, host, ip, port, basePath, url, headers, call >>

\* ------------------------------------------------------------------------
\* The transport and its failures
\* ------------------------------------------------------------------------

ExceptionClasses ==
    { "SSLError", "TooManyRedirects", "ProxyError", "ConnectionError", "InvalidURL",
      "InvalidProxyURL", "ConnectTimeout", "ReadTimeout", "Timeout", "IncompleteRead",
      "socket.timeout", "ChunkedEncodingError" }

\* the classes an exception of class c is an instance of (requests.exceptions)
Bases(c) ==
    CASE c = "SSLError" -> { "SSLError", "ConnectionError" }
      [] c = "ProxyError" -> { "ProxyError", "ConnectionError" }
      [] c = "ConnectTimeout" -> { "ConnectTimeout", "ConnectionError", "Timeout" }
      [] c = "ReadTimeout" -> { "ReadTimeout", "Timeout" }
      [] c = "InvalidProxyURL" -> { "InvalidProxyURL", "InvalidURL" }
      [] OTHER -> { c }

\* the except clauses of request() in source order
Handlers ==
    << [ classes |-> { "SSLError" }, text |-> "" ],
       [ classes |-> { "TooManyRedirects" }, text |-> "Too many redirects: " ],
       [ classes |-> { "ProxyError" }, text |-> "Error with the proxy: " ],
       [ classes |-> { "ConnectionError" }, text |-> "Cannot connect to: " ],
       [ classes |-> { "InvalidURL" }, text |-> "Invalid URL: " ],
       [ classes |-> { "InvalidProxyURL" }, text |-> "Invalid proxy URL: " ],
       [ classes |-> { "ConnectTimeout", "ReadTimeout", "Timeout", "IncompleteRead", "socket.timeout" },
         text |-> "Request timeout: " ],
       [ classes |-> ExceptionClasses \cup { "TypeError", "IndexError" },
         text |-> "There was a problem in the request to: " ] >>

\* the first except clause that catches an exception of class c
Handler(c) ==
    CHOOSE k \in 1..Len(Handlers) :
        /\ Bases(c) \cap Handlers[k].classes # {}
        /\ \A j \in 1..(k - 1) : Bases(c) \cap Handlers[j].classes = {}

\* the message the except clause k assigns to error
ErrorMessage(k, c) ==
    Message(Handlers[k].text,
            CASE k \in { 3, 6 } -> Format(c.proxy)
              [] k = 4 -> host \o << ":" >> \o str(port)
              [] OTHER -> c.url)

Response(status_code, reason, hdrs, content) ==
    [ status |-> status_code, reason |-> reason, headers |-> hdrs, body |-> content ]

\* ------------------------------------------------------------------------
\* Requester.request
\* ------------------------------------------------------------------------

Paths == { << "x" >> }

PinnedProxies == { NoneVal, ProxyD }

ProxyPrefixes ==
    { http \o Delim, https \o Delim,
      << "s", "o", "c", "k", "s", "5" >> \o Delim, << "s", "o", "c", "k", "s", "5", "h" >> \o Delim,
      << "s", "o", "c", "k", "s", "4" >> \o Delim, << "s", "o", "c", "k", "s", "4", "a" >> \o Delim }

\* the scheme prepended without looking at the proxy
NormalizeProxyAlways(p) == http \o Delim \o p

\* lines 141-144
NormalizeProxy(p) ==
    IF ~(\E pre \in ProxyPrefixes : startswith(p, pre)) THEN http \o Delim \o p ELSE p

\* every proxy applied to both kinds of traffic
ProxiesForBoth(p) == IF Truthy(p) THEN { << "http", p >>, << "https", p >> } ELSE {}

\* lines 140-153: the proxies argument as a set of (scheme, proxy) pairs, {} for None
Proxies(p) ==
    IF Truthy(p)
    THEN IF startswith(p, http \o << ":" >>) THEN { << "http", p >>, << "https", p >> }
         ELSE IF startswith(p, https \o << ":" >>) THEN { << "https", p >> }
         ELSE { << "https", p >>, << "http", p >> }
    ELSE {}

\* the proxy of the call kept where the other calls see it
ResolveProxyShared(p, pick) ==
    LET chosen == { call[v].proxy : v \in { x \in DOMAIN call : Truthy(call[x].proxy) } }
    IN  IF chosen # {} THEN CHOOSE q \in chosen : TRUE
        ELSE IF Truthy(proxylist) THEN proxylist[pick]
        ELSE IF Truthy(proxy) THEN proxy ELSE p

\* the proxy list consulted before the proxy given to the call
ResolveProxyListFirst(p, pick) ==
    IF Truthy(proxylist) THEN proxylist[pick]
    ELSE IF ~Truthy(p) /\ Truthy(proxy) THEN proxy ELSE p

\* lines 134-138: the proxy of the call when p is the local proxy so far
ResolveProxy(p, pick) ==
    IF ~Truthy(p)
    THEN IF Truthy(proxylist) THEN proxylist[pick]
         ELSE IF Truthy(proxy) THEN proxy ELSE p
    ELSE p

\* the pick stored under the wrong header
PickedHeadersHost(h, agent) == Put(h, Host, agent)

\* line 158: the headers after the pick of a User-Agent
PickedHeaders(h, agent) == Put(h, UserAgent, agent)

\* a loop that runs one attempt too many
ContinueOnceMore(i) == IF i < maxRetries THEN "try" ELSE "after"

\* where the loop of line 132 goes after attempt number i (0-based) ended without break
Continue(i) == IF i + 1 < maxRetries THEN "try" ELSE "after"

Attempt(c, exchange, outcome) ==
    [ exchange |-> exchange, outcome |-> outcome, url |-> c.url, proxy |-> c.proxy,
      proxies |-> c.proxies ]

\* request(path, proxy) is called: lines 129-132
Request(w, path, pinned) ==
    /\ phase = "ready"
    /\ call[w].pc \in { "idle", "done" }
    /\ call' = [ call EXCEPT ![w] =
                   [ Idle EXCEPT !.pc = IF 0 < maxRetries THEN "try" ELSE "after",
                                 !.path = path, !.pinned = pinned, !.proxy = pinned ] ]
    /\ UNCHANGED << args, phase, exc, protocol, host, ip, port, basePath, url, headers, randomAgents >>

\* lines 134-155: the proxy of this attempt, its proxies argument and the URL
Try(w) ==
    /\ call[w].pc = "try"
    /\ \E pick \in 1..(IF Truthy(proxylist) THEN Len(proxylist) ELSE 1) :
         LET c == call[w]
             p1 == ResolveProxy(c.proxy, pick)
             p2 == IF Truthy(p1) THEN NormalizeProxy(p1) ELSE p1
         IN  call' = [ call EXCEPT ![w] =
                         [ c EXCEPT !.pc = "check", !.proxy = p2, !.proxies = Proxies(p2),
                                    !.url = url \o basePath \o c.path,
                                    !.picked = << >>, !.sent = << >> ] ]
    /\ UNCHANGED << args, phase, exc, protocol, host, ip, port, basePath, url, headers, randomAgents >>

\* line 157
Check(w) ==
    /\ call[w].pc = "check"
    /\ call' = [ call EXCEPT ![w].pc = IF Truthy(randomAgents) THEN "pick" ELSE "send" ]
    /\ UNCHANGED << args, phase, exc, protocol, host, ip, port, basePath, url, headers, randomAgents >>

\* line 158; random.choice of None or of an empty list raises, which line 208 catches
Pick(w) ==
    /\ call[w].pc = "pick"
    /\ LET c == call[w]
       IN  IF Truthy(randomAgents)
           THEN \E k \in 1..Len(randomAgents) :
                    /\ headers' = PickedHeaders(headers, randomAgents[k])
                    /\ call' = [ call EXCEPT ![w] =
                                    [ c EXCEPT !.pc = "send", !.picked = << randomAgents[k] >> ] ]
           ELSE /\ headers' = headers
                /\ call' = [ call EXCEPT ![w] =
                               [ c EXCEPT !.pc = Continue(c.i), !.i = c.i + 1,
                                          !.error = << ErrorMessage(Handler("TypeError"), c) >>,
                                          !.log = Append(c.log, Attempt(c, FALSE, "TypeError")) ] ]
    /\ UNCHANGED << args, phase, exc, protocol, host, ip, port, basePath, url, randomAgents >>

\* the URL rebuilt the way the constructor built it
RebuiltUrlByFlag == BaseUrl(protocol, IF requestByHostname THEN host ELSE ip, port)

\* line 181: self.url after a TLS failure
RebuiltUrl == BaseUrl(protocol, host, port)

\* a TLS failure forgets the pending error
NextErrorTlsClears(old, message, k) == IF k = 1 THEN << >> ELSE << message >>

\* lines 180-209: the pending error after the except clause k ran
NextError(old, message, k) == IF k = 1 THEN old ELSE << message >>

\* lines 160-209: one exchange with the transport, whose headers argument is a
\* copy of self.headers, and the handling of its outcome
SendOf(w, outcome) ==
    /\ call[w].pc = "send"
    /\ LET c == call[w]
           sent == Append(c.log, Attempt(c, TRUE, outcome))
           number == Cardinality({ j \in 1..Len(sent) : sent[j].exchange })
           k == Handler(outcome)
       IN  IF outcome = "ok"
           THEN /\ call' = [ call EXCEPT ![w] =
                               [ c EXCEPT !.pc = "after", !.log = sent, !.sent = << headers >>,
                                          !.result = << Response(200, "OK", << >>, number) >> ] ]
                /\ url' = url
           ELSE /\ call' = [ call EXCEPT ![w] =
                               [ c EXCEPT !.pc = Continue(c.i), !.i = c.i + 1, !.log = sent,
                                          !.sent = << headers >>,
                                          !.error = NextError(c.error, ErrorMessage(k, c), k) ] ]
                /\ url' = IF k = 1 THEN RebuiltUrl ELSE url
    /\ UNCHANGED << args, phase, exc, protocol, host, ip, port, basePath, headers, randomAgents >>

\* the transport gives any outcome
Send(w) == \E outcome \in { "ok" } \cup ExceptionClasses : SendOf(w, outcome)

\* lines 211-214
After(w) ==
    /\ call[w].pc = "after"
    /\ LET c == call[w]
       IN  call' = [ call EXCEPT ![w] =
                       [ c EXCEPT !.pc = "done", !.picked = << >>, !.sent = << >>,
                                  !.ret = IF c.error # << >>
                                          THEN << [ raised |-> TRUE, value |-> RequestException(c.error[1]) ] >>
                                          ELSE << [ raised |-> FALSE, value |-> c.result ] >> ] ]
    /\ UNCHANGED << args, phase, exc, protocol, host, ip, port, basePath, url, headers, randomAgents >>

\* ------------------------------------------------------------------------
\* One caller: the configuration changes only between calls of request()
\* ------------------------------------------------------------------------

Callers == DOMAIN call

NoCallRunning == \A w \in Callers : call[w].pc \in { "idle", "done" }

Init == InitWith(CallArgs, { 1 })

Next ==
    \/ Construct
    \/ \E key \in HeaderKeys, value \in HeaderValues : NoCallRunning /\ setHeader(key, value)
    \/ \E agents \in AgentLists : NoCallRunning /\ setRandomAgents(agents)
    \/ NoCallRunning /\ unsetRandomAgents
    \/ \E w \in Callers, path \in Paths, pinned \in PinnedProxies : Request(w, path, pinned)
    \/ \E w \in Callers : Try(w)
    \/ \E w \in Callers : Check(w)
    \/ \E w \in Callers : Pick(w)
    \/ \E w \in Callers : Send(w)
    \/ \E w \in Callers : After(w)

Spec == Init /\ [][Next]_vars

\* ------------------------------------------------------------------------
\* Properties of request()
\* ------------------------------------------------------------------------

\* the attempts of a call that reached the transport
Exchanges(c) == { j \in 1..Len(c.log) : c.log[j].exchange }

\* the Response built from the exchange of attempt j
ResponseOf(c, j) == Response(200, "OK", << >>, Cardinality({ k \in Exchanges(c) : k <= j }))

Succeeded(c) == { j \in 1..Len(c.log) : c.log[j].outcome = "ok" }

Returned(c) == c.pc = "done" /\ ~c.ret[1].raised

Raised(c) == c.pc = "done" /\ c.ret[1].raised

\* C1: when some attempt of a call succeeds the call returns the Response of
\* that exchange, and a call raises only when no attempt succeeded (and then
\* with the pending message).
C1_SuccessIsReturned ==
    \A w \in Callers :
        LET c == call[w]
        IN  c.pc = "done" =>
              /\ \A j \in Succeeded(c) : Returned(c) /\ c.ret[1].value = << ResponseOf(c, j) >>
              /\ Raised(c) => Succeeded(c) = {} /\ c.error # << >>

\* C2: a finished call either returned a Response or raised; it never returns
\* without a Response.
C2_ResponseOrRaise ==
    \A w \in Callers :
        LET c == call[w]
        IN  c.pc = "done" => Raised(c) \/ c.ret[1].value # << >>

TimeoutFamily == { "ConnectTimeout", "ReadTimeout", "Timeout", "IncompleteRead", "socket.timeout" }

AllTimedOut(c) ==
    /\ c.pc = "done"
    /\ maxRetries >= 1
    /\ \A j \in 1..Len(c.log) : c.log[j].exchange /\ c.log[j].outcome \in TimeoutFamily

\* C3: with maxRetries = N >= 1, a call whose attempts all fail with a failure
\* of the timeout family makes exactly N exchanges and raises the timeout
\* message "Request timeout: <url>".
C3_TimeoutExhausts ==
    \A w \in Callers :
        LET c == call[w]
        IN  AllTimedOut(c) =>
              /\ Cardinality(Exchanges(c)) = maxRetries
              /\ Raised(c)
              /\ c.ret[1].value = RequestException(Message("Request timeout: ", c.url))

\* the proxy a call must use: the pinned one, else a member of the proxy list,
\* else the instance proxy, each after scheme normalization; {} when none
AllowedProxies(c) ==
    IF Truthy(c.pinned) THEN { NormalizeProxy(c.pinned) }
    ELSE IF Truthy(proxylist) THEN { NormalizeProxy(proxylist[k]) : k \in 1..Len(proxylist) }
    ELSE IF Truthy(proxy) THEN { NormalizeProxy(proxy) }
    ELSE {}

\* C4: every exchange of a call goes through the pinned proxy when one is
\* given, else through a member of the non-empty proxy list, else through the
\* instance proxy, else through no proxy.
C4_ProxyResolutionOrder ==
    \A w \in Callers :
        LET c == call[w]
            allowed == AllowedProxies(c)
        IN  \A j \in Exchanges(c) :
              LET e == c.log[j]
              IN  /\ { pair[2] : pair \in e.proxies } = allowed \cap { e.proxy }
                  /\ allowed = {} <=> e.proxies = {}
                  /\ allowed # {} => e.proxy \in allowed

\* a finished call without pinned proxy whose exchanges went through a
\* normalized member of the proxy list
C4_Witness ==
    \E w \in Callers :
        LET c == call[w]
        IN  /\ c.pc = "done"
            /\ ~Truthy(c.pinned)
            /\ Truthy(proxylist)
            /\ Cardinality(Exchanges(c)) >= 2
            /\ \A j \in Exchanges(c) : c.log[j].proxy = http \o Delim \o ProxyB

\* C6: a step of request() changes no header except User-Agent, and changes
\* User-Agent only when randomAgents is a non-empty list.
C6_HeadersFrame ==
    [][ call' # call =>
          /\ \A k \in DOMAIN headers : k # UserAgent => k \in DOMAIN headers' /\ headers'[k] = headers[k]
          /\ DOMAIN headers' \subseteq (DOMAIN headers) \cup { UserAgent }
          /\ headers' # headers => Truthy(randomAgents) ]_vars

\* a call in its second attempt with the Host header overridden before the
\* call and a User-Agent picked by the call
C6_Witness ==
    \E w \in Callers :
        /\ call[w].pc = "send"
        /\ call[w].i >= 1
        /\ headers[Host] = << "x" >>
        /\ UserAgent \in DOMAIN headers

\* ------------------------------------------------------------------------
\* Properties of the constructor
\* ------------------------------------------------------------------------

\* 80 for http and 443 for https; for any other protocol the port the
\* constructor assigns when the URL names none counts as its default
DefaultPort(proto, prt) == prt = (IF proto = https THEN 443 ELSE 80)

\* C5: after a successful construction the Host header is host when the port
\* is the default of the protocol (80 for http, 443 for https) and host:port
\* otherwise.
C5_HostHeader ==
    (phase = "ready" /\ NoCallRunning) =>
        headers[Host] = IF DefaultPort(protocol, port) THEN host
                        ELSE host \o << ":" >> \o str(port)

\* C7: the basePath of a constructed Requester never starts with '/'.
C7_BasePathNoLeadingSlash ==
    phase = "ready" => ~startswith(basePath, << "/" >>)

\* C8: construction fails with a RequestException when the URL has an explicit
\* scheme other than http or https, and a constructed Requester has protocol
\* http or https.
C8_SupportedScheme ==
    /\ (phase # "new" /\ Parsed(args).explicit /\ Parsed(args).scheme \notin { http, https })
          => (phase = "failed" /\ exc[1].type = "RequestException")
    /\ phase = "ready" => protocol \in { http, https }

\* the port segment of the URL, << >> standing for none
PortSegment(a) == LET parts == split(Parsed(a).netloc, ":") IN IF Len(parts) < 2 THEN << >> ELSE << parts[2] >>

\* a port segment that is there (not empty) and is no integer
InvalidPort(a) == PortSegment(a) \notin { << >>, << << >> >> } /\ ~IsInt(PortSegment(a)[1])

\* C9: with a supported scheme and a port segment that is not an integer,
\* construction fails with the message citing the invalid port, whatever ip,
\* proxy settings and DNS outcome are.
C9_InvalidPortCited ==
    (phase # "new" /\ Parsed(args).scheme \in { http, https } /\ InvalidPort(args))
        => /\ phase = "failed"
           /\ exc = << RequestException(Message("Invalid port number: ", PortSegment(args)[1])) >>

\* C10: construction ends with a complete configuration or with a
\* RequestException; with a proxy or proxy list, no override ip and a valid
\* URL it completes with a base URL.
C10_CompleteOrConfigError ==
    /\ phase = "failed" => exc[1].type = "RequestException"
    /\ phase = "ready" => Unset \notin { protocol, host, ip, basePath, url }
    /\ (/\ phase # "new"
        /\ Truthy(args.proxy) \/ Truthy(args.proxylist)
        /\ ~Truthy(args.ip)
        /\ Parsed(args).scheme \in { http, https }
        /\ PortSegment(args) = << >> \/ IsInt(PortSegment(args)[1]))
          => phase = "ready" /\ url # Unset

\* ------------------------------------------------------------------------
\* Properties of the retry loop
\* ------------------------------------------------------------------------

\* C11: a call makes at most maxRetries exchanges (those that fail in the TLS
\* handshake included), one attempt at a time, and none after its first
\* successful exchange.
C11_BoundedAttempts ==
    \A w \in Callers :
        LET c == call[w]
        IN  /\ Cardinality(Exchanges(c)) <= maxRetries
            /\ Len(c.log) <= maxRetries
            /\ \A j \in Succeeded(c) : j = Len(c.log) /\ c.pc \in { "after", "done" }
            /\ c.pc \in { "check", "pick", "send" } => Len(c.log) = c.i /\ c.i < maxRetries

\* a finished call that used up its attempts, one of them in the TLS
\* handshake, and succeeded in the last one
C11_Witness ==
    \E w \in Callers :
        LET c == call[w]
        IN  /\ c.pc = "done"
            /\ maxRetries >= 2
            /\ Cardinality(Exchanges(c)) = maxRetries
            /\ c.log[1].outcome = "SSLError"
            /\ c.log[maxRetries].outcome = "ok"

\* C12: once an attempt of a call has a proxy, every later attempt of the call
\* uses the same proxy and the same proxies argument.
C12_ProxyKeptAcrossAttempts ==
    \A w \in Callers :
        LET c == call[w]
        IN  /\ \A j \in 1..Len(c.log) : \A k \in j..Len(c.log) :
                  Truthy(c.log[j].proxy) =>
                      c.log[k].proxy = c.log[j].proxy /\ c.log[k].proxies = c.log[j].proxies
            /\ (c.pc \in { "check", "pick", "send" } /\ Len(c.log) >= 1 /\ Truthy(c.log[1].proxy))
                  => c.proxy = c.log[1].proxy /\ c.proxies = c.log[1].proxies

\* a second attempt that is about to go through the list member picked, and
\* given its scheme, in the first attempt
C12_Witness ==
    \E w \in Callers :
        LET c == call[w]
        IN  /\ c.pc = "send"
            /\ c.i = 1
            /\ ~Truthy(c.pinned)
            /\ c.log[1].proxy = http \o Delim \o ProxyB
            /\ c.proxy = c.log[1].proxy

\* the hostname-based base URL
HostnameUrl == protocol \o Delim \o host \o << ":" >> \o str(port) \o << "/" >>

\* the step is an attempt of call w that failed in the TLS handshake
TlsFailed(w) ==
    /\ Len(call'[w].log) = Len(call[w].log) + 1
    /\ call'[w].log[Len(call'[w].log)].outcome = "SSLError"

\* C13: an attempt that fails in the TLS handshake sets the base URL to
\* protocol://host:port/ whatever requestByHostname is, and leaves the pending
\* error as it was; the base URL changes in no other step, never changes once
\* it is hostname-based, and every attempt made after the failure, in this
\* call or a later one, builds its URL on the hostname-based base URL.
C13_TlsFallback ==
    /\ [][ /\ \A w \in Callers :
                TlsFailed(w) => url' = HostnameUrl /\ call'[w].error = call[w].error
           /\ (phase = "ready" /\ url = HostnameUrl) => url' = url
           /\ (phase = "ready" /\ url' # url) => \E w \in Callers : TlsFailed(w)
       ]_vars
    /\ [](\A w \in Callers :
            LET c == call[w]
            IN  /\ c.pc \in { "check", "pick", "send" } => c.url = url \o basePath \o c.path
                /\ \A j \in 1..Len(c.log) : \A k \in (j + 1)..Len(c.log) :
                      c.log[j].outcome = "SSLError" => c.log[k].url = HostnameUrl \o basePath \o c.path)

\* a Requester built to request by IP whose call failed to connect, then
\* failed in the TLS handshake, and is about to raise the first failure
C13_Witness ==
    \E w \in Callers :
        LET c == call[w]
        IN  /\ c.pc = "after"
            /\ ~requestByHostname
            /\ Len(c.log) = 2
            /\ c.log[1].outcome = "ConnectionError"
            /\ c.log[2].outcome = "SSLError"
            /\ c.error # << >>
            /\ url = HostnameUrl
            /\ c.log[2].url # url \o basePath \o c.path

\* the attempts of a call that failed otherwise than in the TLS handshake
Failures(c) == { j \in 1..Len(c.log) : c.log[j].outcome \notin { "ok", "SSLError" } }

LastFailure(c) == CHOOSE j \in Failures(c) : \A k \in Failures(c) : k <= j

\* the message of the failure of attempt j
FailureMessage(c, j) == ErrorMessage(Handler(c.log[j].outcome), c.log[j])

\* C14: the pending error of a call is the message of its last failure that is
\* not a TLS failure (none before the first such failure), and a call whose
\* attempts all failed, one of them otherwise than in the TLS handshake,
\* raises that message.
C14_LastFailureSurfaces ==
    \A w \in Callers :
        LET c == call[w]
        IN  /\ c.pc # "idle" =>
                  c.error = IF Failures(c) = {} THEN << >> ELSE << FailureMessage(c, LastFailure(c)) >>
            /\ (c.pc = "done" /\ Succeeded(c) = {} /\ Failures(c) # {}) =>
                  /\ Raised(c)
                  /\ c.ret[1].value = RequestException(FailureMessage(c, LastFailure(c)))

\* a call that raised the message of its first attempt after the second
\* failed in the TLS handshake
C14_Witness ==
    \E w \in Callers :
        LET c == call[w]
        IN  /\ Raised(c)
            /\ Len(c.log) = 2
            /\ c.log[1].outcome = "InvalidURL"
            /\ c.log[2].outcome = "SSLError"
            /\ c.ret[1].value = RequestException(Message("Invalid URL: ", c.log[1].url))

\* the message each failure category is said to get
CategoryText(c) ==
    CASE c = "TooManyRedirects" -> "Too many redirects: "
      [] c = "ProxyError" -> "Error with the proxy: "
      [] c = "ConnectionError" -> "Cannot connect to: "
      [] c = "InvalidURL" -> "Invalid URL: "
      [] c = "InvalidProxyURL" -> "Invalid proxy URL: "
      [] c \in TimeoutFamily -> "Request timeout: "
      [] OTHER -> "There was a problem in the request to: "

\* C15: after an attempt failed otherwise than in the TLS handshake, the
\* pending error carries the message of the category of the failure: a connect
\* timeout the timeout message, an invalid proxy URL the invalid proxy URL
\* message, and so on for each category.
C15_OwnMessagePerCategory ==
    \A w \in Callers :
        LET c == call[w]
            n == Len(c.log)
        IN  (n >= 1 /\ n \in Failures(c)) =>
                /\ c.error # << >>
                /\ c.error[1].text = CategoryText(c.log[n].outcome)

\* the proxy strings a call may choose from, as given
Candidates(c) ==
    IF Truthy(c.pinned) THEN { c.pinned }
    ELSE IF Truthy(proxylist) THEN { proxylist[k] : k \in 1..Len(proxylist) }
    ELSE IF Truthy(proxy) THEN { proxy }
    ELSE {}

\* the text of p before its first "://", p itself when there is none
SchemeOf(p) ==
    LET i == Find(p, Delim)
    IN  IF i = 0 THEN p ELSE SubSeq(p, 1, i - 1)

SocksSchemes ==
    { << "s", "o", "c", "k", "s", "5" >>, << "s", "o", "c", "k", "s", "5", "h" >>,
      << "s", "o", "c", "k", "s", "4" >>, << "s", "o", "c", "k", "s", "4", "a" >> }

HasRecognizedScheme(p) == \E sch \in { http, https } \cup SocksSchemes : startswith(p, sch \o Delim)

\* the proxy string with http:// in front when it has no recognized scheme
WithScheme(p) == IF HasRecognizedScheme(p) THEN p ELSE << "h", "t", "t", "p", ":", "/", "/" >> \o p

\* the traffic a proxy with a recognized scheme applies to
TrafficOf(p) == IF SchemeOf(p) = https THEN { "https" } ELSE { "http", "https" }

\* the proxy and the proxies argument that go with the proxy string raw
SettingsOf(raw) ==
    LET p == WithScheme(raw)
    IN  [ proxy |-> p, proxies |-> { << t, p >> : t \in TrafficOf(p) } ]

\* C16: the proxies argument of every exchange is determined by the chosen
\* proxy string: the string gets http:// in front unless it starts with a
\* recognized scheme, and then applies to http and https traffic when its
\* scheme is http or of the socks family, to https traffic only when its
\* scheme is https; without a proxy there is no proxies argument.
C16_ProxySettings ==
    \A w \in Callers :
        LET c == call[w]
            settings == { SettingsOf(raw) : raw \in Candidates(c) }
        IN  \A j \in Exchanges(c) :
              LET e == c.log[j]
              IN  IF settings = {}
                  THEN e.proxies = {} /\ ~Truthy(e.proxy)
                  ELSE [ proxy |-> e.proxy, proxies |-> e.proxies ] \in settings

\* a finished call whose exchange went through the https proxy of the list,
\* applied to https traffic only
C16_Witness ==
    \E w \in Callers :
        LET c == call[w]
        IN  /\ c.pc = "done"
            /\ Len(c.log) >= 1
            /\ c.log[1].exchange
            /\ c.log[1].proxy = ProxyC
            /\ c.log[1].proxies = { << "https", ProxyC >> }

\* ------------------------------------------------------------------------
\* Two callers share one Requester: the statements of request() interleave
\* with each other and with setRandomAgents and unsetRandomAgents
\* ------------------------------------------------------------------------

SharedArgs ==
    { a \in CallArgs :
        /\ a.requestByHostname
        /\ a.maxRetries = MaxRetriesBound
        /\ ~Truthy(a.proxy)
        /\ Truthy(a.proxylist) }

SharedOutcomes == { "ok", "ReadTimeout" }

InitShared == InitWith(SharedArgs, { 1, 2 })

NextShared ==
    \/ Construct
    \/ \E agents \in AgentLists : setRandomAgents(agents)
    \/ unsetRandomAgents
    \/ \E w \in Callers, path \in Paths, pinned \in PinnedProxies : Request(w, path, pinned)
    \/ \E w \in Callers : Try(w)
    \/ \E w \in Callers : Check(w)
    \/ \E w \in Callers : Pick(w)
    \/ \E w \in Callers, outcome \in SharedOutcomes : SendOf(w, outcome)
    \/ \E w \in Callers : After(w)

SpecShared == InitShared /\ [][NextShared]_vars

\* C17: while calls of request() interleave on one Requester, every exchange
\* of a call goes through the proxy resolved for that call (the call's pinned
\* proxy, else one member of the proxy list, else the instance proxy), the
\* same in all its attempts, a call without pinned proxy never goes through
\* the proxy pinned on another call, and no step of request() changes the
\* proxy or the proxy list of the Requester.
C17_ProxyPerCall ==
    /\ [](\A w \in Callers :
            LET c == call[w]
            IN  \A j \in Exchanges(c) :
                  /\ c.log[j].proxy \in AllowedProxies(c)
                  /\ \A k \in Exchanges(c) : c.log[k].proxy = c.log[j].proxy
                  /\ \A v \in Callers \ { w } :
                        (Truthy(call[v].pinned) /\ ~Truthy(c.pinned)) =>
                            c.log[j].proxy # NormalizeProxy(call[v].pinned))
    /\ [][ call' # call => args'.proxy = args.proxy /\ args'.proxylist = args.proxylist ]_vars

\* two calls in their second attempt at once, one through its pinned proxy,
\* the other through a member of the proxy list
C17_Witness ==
    \E w \in Callers, v \in Callers :
        /\ call[w].pc = "send"
        /\ call[v].pc = "send"
        /\ call[w].pinned = ProxyD
        /\ ~Truthy(call[v].pinned)
        /\ Len(call[w].log) = 1 /\ call[w].log[1].exchange /\ call[w].log[1].proxy = ProxyD
        /\ Len(call[v].log) = 1 /\ call[v].log[1].exchange /\ call[v].log[1].proxy = ProxyC
        /\ call[w].proxy = ProxyD
        /\ call[v].proxy = ProxyC

\* C18: the User-Agent header handed to the transport in an attempt is the
\* value the attempt picked from randomAgents, however the calls interleave.
C18_SentAgentIsPicked ==
    \A w \in Callers :
        LET c == call[w]
        IN  (c.picked # << >> /\ c.sent # << >>) =>
                UserAgent \in DOMAIN c.sent[1] /\ c.sent[1][UserAgent] = c.picked[1]

\* C19: every attempt of a call made one exchange, so that a call that raised
\* after all its attempts failed made exactly maxRetries exchanges, however
\* setRandomAgents and unsetRandomAgents interleave with the call.
C19_AttemptIsExchange ==
    \A w \in Callers :
        LET c == call[w]
        IN  /\ \A j \in 1..Len(c.log) : c.log[j].exchange
            /\ (Raised(c) /\ Succeeded(c) = {}) => Cardinality(Exchanges(c)) = maxRetries

====
